---------------------------- MODULE Spec2Model ----------------------------
(***************************************************************************)
(* A model of the polling application's vote tally core:                   *)
(*   - the datastore tables polls and poll_options,                        *)
(*   - the server actions createPoll, submitVote, deletePoll, updatePoll   *)
(*     of src/lib/actions.ts, one action per datastore round trip,         *)
(*   - the reader getPollDetails and the percentage the page renders.      *)
(***************************************************************************)
EXTENDS Integers, Sequences, FiniteSets, TLC

(***************************************************************************)
(* Bounds of the model.                                                    *)
(***************************************************************************)
\* voter sessions that call submitVote
NumVoters == 2
\* poll rows ever inserted
MaxPolls == 2
\* option rows ever inserted
MaxOptions == 4
\* Spec: polls created, and submitVote calls that succeed or are in flight
EditPolls == 1
EditOptions == 3
EditVoters == 1
MaxCalls == 2
\* SpecLife: submitVote calls that succeed or are in flight
LifeCalls == 2
\* SpecCross: submitVote calls that succeed or are in flight
CrossCalls == 2
\* SpecRead: submitVote calls that succeed or are in flight
ReadCalls == 3
\* SpecSeq: submitVote calls that succeed
SeqCalls == 4
\* SpecApart: submitVote calls that succeed or are in flight
ApartCalls == 3
\* SpecForm: submitVote calls that succeed or are in flight
FormCalls == 2
\* SpecCreate: option rows ever inserted
CreateRows == 5
\* SpecEdit: submitVote calls that succeed or are in flight
AloneCalls == 2
\* SpecKeep: submitVote calls that succeed or are in flight
KeepCalls == 2
\* SpecPct: options of the poll read, votes of each, and the total of a
\* two-option poll
PctOptions == 4
PctVotes == 5
PctTotal == 40

(***************************************************************************)
(* IEEE-754 double arithmetic, as far as the percentage needs it.          *)
(* A positive double is held as a record                                   *)
(*   [sig |-> <<h, m, l>>, exp |-> k, drop |-> s]                          *)
(* whose value is                                                          *)
(*   (h * 2^(2*LimbBits) + m * 2^LimbBits + l * 2^s) * 2^-(k + MantBits-1) *)
(* with m < 2^LimbBits, l < 2^(LimbBits - s), and the three limbs together *)
(* holding the MantBits bits of the significand. Limbs keep every          *)
(* intermediate value inside the model checker's integers.                 *)
(***************************************************************************)
\* the significand width of a JavaScript number
MantBits == 53
\* the width of the two low limbs of a significand
LimbBits == 17

RECURSIVE Pow2(_)
Pow2(n) == IF n <= 0 THEN 1 ELSE 2 * Pow2(n - 1)

\* the number of bits of a positive integer
RECURSIVE BitLength(_)
BitLength(n) == IF n = 0 THEN 0 ELSE 1 + BitLength(n \div 2)

\* the number of doublings that bring num up to den: num/den in [2^-k, 2^(1-k))
RECURSIVE LeadShift(_, _)
LeadShift(num, den) ==
    IF num >= den THEN 0 ELSE 1 + LeadShift(2 * num, den)

\* sig + 1 unit of its last kept bit, the low limb being lowBits wide
SigIncrement(sig, lowBits) ==
    IF sig[3] + 1 < Pow2(lowBits) THEN <<sig[1], sig[2], sig[3] + 1>>
    ELSE IF sig[2] + 1 < Pow2(LimbBits) THEN <<sig[1], sig[2] + 1, 0>>
    ELSE <<sig[1] + 1, 0, 0>>

\* round to nearest, ties to even: cmp compares the discarded part with half
\* a unit of the last kept bit (-1 below, 0 tie, 1 above)
RoundNearestEven(sig, lowBits, cmp) ==
    IF cmp = 1 \/ (cmp = 0 /\ sig[3] % 2 = 1)
    THEN SigIncrement(sig, lowBits)
    ELSE sig

\* fl(num / den) for 0 < num < den, by long division, a limb at a time
FloatDiv(num, den) ==
    LET k   == LeadShift(num, den)
        r0  == num * Pow2(k) - den
        top == MantBits - 1 - 2 * LimbBits
        x1  == r0 * Pow2(top)
        x2  == (x1 % den) * Pow2(LimbBits)
        x3  == (x2 % den) * Pow2(LimbBits)
        r3  == x3 % den
        sig == <<Pow2(top) + (x1 \div den), x2 \div den, x3 \div den>>
        cmp == IF 2 * r3 > den THEN 1 ELSE IF 2 * r3 = den THEN 0 ELSE -1
    IN  [sig |-> RoundNearestEven(sig, LimbBits, cmp), exp |-> k, drop |-> 0]

\* fl(x * c) for a double x (drop = 0) and a small positive integer c
FloatMulSmall(x, c) ==
    LET p3   == x.sig[3] * c
        p2   == x.sig[2] * c + (p3 \div Pow2(LimbBits))
        ph   == x.sig[1] * c + (p2 \div Pow2(LimbBits))
        l3   == p3 % Pow2(LimbBits)
        l2   == p2 % Pow2(LimbBits)
        s    == 2 * LimbBits + BitLength(ph) - MantBits
        rest == l3 % Pow2(s)
        cmp  == IF s = 0 THEN -1
                ELSE IF rest > Pow2(s - 1) THEN 1
                ELSE IF rest = Pow2(s - 1) THEN 0 ELSE -1
        sig  == <<ph, l2, l3 \div Pow2(s)>>
    IN  [sig |-> RoundNearestEven(sig, LimbBits - s, cmp), exp |-> x.exp, drop |-> s]

\* Math.round of a positive double below 2^LimbBits: floor(x + 1/2), exactly.
\* The integer part and the bit of weight 1/2 both lie in the top limb.
MathRound(x) ==
    LET g == x.exp + MantBits - 1 - 2 * LimbBits
    IN  (x.sig[1] \div Pow2(g)) + ((x.sig[1] \div Pow2(g - 1)) % 2)

\* a value that stands for JavaScript's NaN
NaN == -1

\* Math.round((votes / totalVotes) * 100) without the zero guard
RoundedShare(votes, totalVotes) ==
    IF totalVotes = 0 THEN NaN
    ELSE IF votes = 0 THEN 0
    ELSE IF votes = totalVotes THEN 100
    ELSE MathRound(FloatMulSmall(FloatDiv(votes, totalVotes), 100))

\* the percentage the page shows for an option
\* the share taken with Math.floor in place of Math.round
PercentageFloor(votes, totalVotes) ==
    IF totalVotes > 0 THEN (votes * 100) \div totalVotes ELSE 0

\* the share without the guard on a poll that has no votes
PercentageUnguarded(votes, totalVotes) == RoundedShare(votes, totalVotes)

Percentage(votes, totalVotes) ==
    IF totalVotes > 0 THEN RoundedShare(votes, totalVotes) ELSE 0

(***************************************************************************)
(* Strings are sequences of characters, so that trim() is computed.        *)
(***************************************************************************)
\* String.prototype.trim
RECURSIVE TrimStart(_)
TrimStart(s) == IF s # <<>> /\ Head(s) = " " THEN TrimStart(Tail(s)) ELSE s

RECURSIVE TrimEnd(_)
TrimEnd(s) ==
    IF s # <<>> /\ s[Len(s)] = " " THEN TrimEnd(SubSeq(s, 1, Len(s) - 1)) ELSE s

Trim(s) == TrimEnd(TrimStart(s))

(***************************************************************************)
(* The state.                                                              *)
(***************************************************************************)
VARIABLES
    polls,          \* table polls: id -> [title, description, created_by]
    poll_options,   \* table poll_options: id -> [poll_id, text, votes]
    nextPollId,     \* the next gen_random_uuid() of polls
    nextOptionId,   \* the next gen_random_uuid() of poll_options
    voter,          \* per session: the submitVote call in flight, or its outcome
    editor,         \* the lifecycle call (createPoll, updatePoll) in flight
    detail,         \* what PollDetailPage last fetched and rendered
    accepted,       \* history: option id -> submitVote calls that returned success
    ballots,        \* history: the <<session, poll id>> of every accepted vote
    form            \* the state of the PollVotingForm mounted in the browser

dbVars   == <<polls, poll_options, nextPollId, nextOptionId>>
histVars == <<accepted, ballots>>
vars     == <<polls, poll_options, nextPollId, nextOptionId, voter, editor,
              detail, accepted, ballots, form>>

Voters    == 1 .. NumVoters
PollIds   == 1 .. MaxPolls
OptionIds == 1 .. MaxOptions

\* absent values
Null   == <<"null">>
NoRow  == [poll_id |-> 0, text |-> Null, votes |-> 0]
NoUser == "anonymous-session"

(***************************************************************************)
(* The datastore queries the actions issue (the Supabase query builder).   *)
(***************************************************************************)
\* the select without .eq('poll_id', p)
SelectById(rows, optionId, pollId) ==
    IF optionId \in DOMAIN rows THEN rows[optionId] ELSE NoRow

\* the select filtered on the poll alone, taking its first row
SelectFirstOfPoll(rows, optionId, pollId) ==
    IF \E o \in DOMAIN rows : rows[o].poll_id = pollId
    THEN rows[CHOOSE o \in DOMAIN rows :
                  /\ rows[o].poll_id = pollId
                  /\ \A x \in DOMAIN rows : rows[x].poll_id = pollId => o <= x]
    ELSE NoRow

\* .from('poll_options').select('votes').eq('id', o).eq('poll_id', p).single()
SelectOption(rows, optionId, pollId) ==
    IF optionId \in DOMAIN rows /\ rows[optionId].poll_id = pollId
    THEN rows[optionId]
    ELSE NoRow

\* the rows .eq('id', o).eq('poll_id', p) matches
MatchOption(rows, optionId, pollId) ==
    {o \in DOMAIN rows : o = optionId /\ rows[o].poll_id = pollId}

\* the update without .eq('id', o): every row of the poll
UpdateVotesOfPoll(rows, optionId, pollId, n) ==
    [o \in DOMAIN rows |->
        IF rows[o].poll_id = pollId THEN [rows[o] EXCEPT !.votes = n] ELSE rows[o]]

\* .update({ votes: n }).eq('id', o).eq('poll_id', p): every matching row,
\* no error when none matches
UpdateVotes(rows, optionId, pollId, n) ==
    [o \in DOMAIN rows |->
        IF o \in MatchOption(rows, optionId, pollId)
        THEN [rows[o] EXCEPT !.votes = n]
        ELSE rows[o]]

\* .update({ text: t }).eq('id', o)
UpdateText(rows, optionId, t) ==
    [o \in DOMAIN rows |->
        IF o = optionId THEN [rows[o] EXCEPT !.text = t] ELSE rows[o]]

\* .delete().eq('id', o)
DeleteOption(rows, optionId) ==
    [o \in DOMAIN rows \ {optionId} |-> rows[o]]

\* the delete without the cascade to the poll's options
DeleteWithoutCascade(rows, pollId) == rows

\* .from('polls').delete().eq('id', p), with poll_options' ON DELETE CASCADE
CascadeDelete(rows, pollId) ==
    [o \in {x \in DOMAIN rows : rows[x].poll_id # pollId} |-> rows[o]]

\* the ids of a poll's option rows
OptionsOf(rows, pollId) == {o \in DOMAIN rows : rows[o].poll_id = pollId}

\* a set of ids as a sequence in insertion order
RECURSIVE InOrder(_)
InOrder(ids) ==
    IF ids = {} THEN <<>>
    ELSE LET m == CHOOSE x \in ids : \A y \in ids : x <= y
         IN  <<m>> \o InOrder(ids \ {m})

\* the embedding joined so that options without votes are left out
EmbedVotedOptions(rows, pollId) ==
    LET ids == InOrder({o \in OptionsOf(rows, pollId) : rows[o].votes > 0})
    IN  [i \in 1 .. Len(ids) |->
            [id |-> ids[i], text |-> rows[ids[i]].text, votes |-> rows[ids[i]].votes]]

\* poll_options ( id, text, votes ) embedded in the polls select
EmbedOptions(rows, pollId) ==
    LET ids == InOrder(OptionsOf(rows, pollId))
    IN  [i \in 1 .. Len(ids) |->
            [id |-> ids[i], text |-> rows[ids[i]].text, votes |-> rows[ids[i]].votes]]

(***************************************************************************)
(* submitVote(pollId, optionId): a read round trip, then a write round     *)
(* trip.                                                                   *)
(***************************************************************************)
IdleVoter == [pc |-> "idle", pollId |-> 0, optionId |-> 0, currentVotes |-> 0,
              result |-> "none"]

\* the update without the increment
VotesAsRead(currentVotes) == currentVotes

\* the value submitVote writes back
NewVotes(currentVotes) == currentVotes + 1

\* submitVote is called and its select returns
SubmitVoteRead(p, pollId, optionId, dbOk) ==
    /\ voter[p].pc = "idle"
    /\ LET currentOption == SelectOption(poll_options, optionId, pollId)
           fetchError    == ~dbOk \/ currentOption = NoRow
       IN  voter' = [voter EXCEPT ![p] =
               IF fetchError
               THEN [pc |-> "idle", pollId |-> pollId, optionId |-> optionId,
                     currentVotes |-> 0,
                     result |-> "Failed to fetch current vote count"]
               ELSE [pc |-> "write", pollId |-> pollId, optionId |-> optionId,
                     currentVotes |-> currentOption.votes, result |-> "pending"]]
    /\ UNCHANGED <<dbVars, editor, detail, histVars>>

\* the update repeated until it matches a row
SubmitVoteWriteUntilMatched(p, dbOk) ==
    /\ voter[p].pc = "write"
    /\ MatchOption(poll_options, voter[p].optionId, voter[p].pollId) # {}
    /\ LET v == voter[p]
       IN  IF dbOk
           THEN /\ poll_options' = UpdateVotes(poll_options, v.optionId, v.pollId,
                                               NewVotes(v.currentVotes))
                /\ voter' = [voter EXCEPT ![p] =
                       [v EXCEPT !.pc = "idle", !.currentVotes = 0, !.result = "ok"]]
                /\ accepted' = [accepted EXCEPT ![v.optionId] = @ + 1]
                /\ ballots' = ballots \cup {<<p, v.pollId>>}
           ELSE /\ voter' = [voter EXCEPT ![p] =
                       [v EXCEPT !.pc = "idle", !.currentVotes = 0,
                                 !.result = "Failed to submit vote"]]
                /\ UNCHANGED <<poll_options, accepted, ballots>>
    /\ UNCHANGED <<polls, nextPollId, nextOptionId, editor, detail>>

\* its update returns, and submitVote returns or throws
SubmitVoteWrite(p, dbOk) ==
    /\ voter[p].pc = "write"
    /\ LET v == voter[p]
       IN  IF dbOk
           THEN /\ poll_options' = UpdateVotes(poll_options, v.optionId, v.pollId,
                                               NewVotes(v.currentVotes))
                /\ voter' = [voter EXCEPT ![p] =
                       [v EXCEPT !.pc = "idle", !.currentVotes = 0, !.result = "ok"]]
                /\ accepted' = [accepted EXCEPT ![v.optionId] = @ + 1]
                /\ ballots' = ballots \cup {<<p, v.pollId>>}
           ELSE /\ voter' = [voter EXCEPT ![p] =
                       [v EXCEPT !.pc = "idle", !.currentVotes = 0,
                                 !.result = "Failed to submit vote"]]
                /\ UNCHANGED <<poll_options, accepted, ballots>>
    /\ UNCHANGED <<polls, nextPollId, nextOptionId, editor, detail>>

(***************************************************************************)
(* getPollDetails(pollId) and the percentages PollDetailPage renders.      *)
(***************************************************************************)
NoDetail == [status |-> "none", id |-> 0, title |-> <<>>, description |-> <<>>,
             created_by |-> "", options |-> <<>>, total_votes |-> 0,
             percentages |-> <<>>]

\* poll_options.reduce((sum, option) => sum + (option.votes || 0), 0)
RECURSIVE ReduceVotes(_, _)
ReduceVotes(options, sum) ==
    IF options = <<>> THEN sum
    ELSE ReduceVotes(Tail(options), sum + Head(options).votes)

\* the reduce started after the first option
TotalAfterFirst(options) ==
    IF options = <<>> THEN 0 ELSE ReduceVotes(Tail(options), 0)

\* the reduce seeded with the total of the previous read
TotalCarried(options) == ReduceVotes(options, detail.total_votes)

TotalVotes(options) == ReduceVotes(options, 0)

\* one select with the options embedded, then the reduce and the render:
\* what the page shows for poll id
GetPollDetails(id, dbOk) ==
    IF ~dbOk \/ id \notin DOMAIN polls
    THEN [NoDetail EXCEPT !.status = "notFound", !.id = id]
    ELSE LET options    == EmbedOptions(poll_options, id)
             totalVotes == TotalVotes(options)
         IN  [status |-> "ok", id |-> id, title |-> polls[id].title,
              description |-> IF polls[id].description = Null THEN <<>>
                              ELSE polls[id].description,
              created_by |-> polls[id].created_by,
              options |-> options, total_votes |-> totalVotes,
              percentages |-> [i \in 1 .. Len(options) |->
                                  Percentage(options[i].votes, totalVotes)]]

PollDetailPage(id, dbOk) ==
    /\ detail' = GetPollDetails(id, dbOk)
    /\ UNCHANGED <<dbVars, voter, editor, histVars>>


(***************************************************************************)
(* createPoll(formData): validation, the polls insert, then the            *)
(* poll_options insert.                                                    *)
(***************************************************************************)
IdleEditor == [pc |-> "idle", pollId |-> 0, options |-> <<>>, existing |-> <<>>,
               i |-> 0, result |-> "none"]

\* formData.get('options'): what JSON.parse makes of it ("invalid": it throws)
\* and, for an array, the text of each entry
JsonArray(items) == [json |-> "array", items |-> items]
BadJson  == [json |-> "invalid", items |-> <<>>]
NotArray == [json |-> "object", items |-> <<>>]

Failed(msg) == [IdleEditor EXCEPT !.result = msg]

\* the checks of createPoll without the one of the signed-in user
ValidateCreateAnyone(user, title, options) ==
    IF Trim(title) = <<>> THEN "Poll title is required"
    ELSE IF options.json = "invalid" THEN "Invalid options format provided"
    ELSE IF options.json # "array" \/ Len(options.items) < 2
         THEN "At least 2 options are required"
    ELSE IF \E i \in 1 .. Len(options.items) : Trim(options.items[i]) = <<>>
         THEN "All poll options must have text content"
    ELSE "valid"

\* the checks of createPoll on the texts as typed, not trimmed
ValidateCreateUntrimmed(user, title, options) ==
    IF user = NoUser THEN "You must be logged in to create a poll"
    ELSE IF title = <<>> THEN "Poll title is required"
    ELSE IF options.json = "invalid" THEN "Invalid options format provided"
    ELSE IF options.json # "array" \/ Len(options.items) < 2
         THEN "At least 2 options are required"
    ELSE IF \E i \in 1 .. Len(options.items) : options.items[i] = <<>>
         THEN "All poll options must have text content"
    ELSE "valid"

\* the first check of createPoll that fails, or "valid"
ValidateCreate(user, title, options) ==
    IF user = NoUser THEN "You must be logged in to create a poll"
    ELSE IF Trim(title) = <<>> THEN "Poll title is required"
    ELSE IF options.json = "invalid" THEN "Invalid options format provided"
    ELSE IF options.json # "array" \/ Len(options.items) < 2
         THEN "At least 2 options are required"
    ELSE IF \E i \in 1 .. Len(options.items) : Trim(options.items[i]) = <<>>
         THEN "All poll options must have text content"
    ELSE "valid"

\* the rows of the batch in the reverse of the submitted order
OptionsToInsertReversed(pollId, options, firstId) ==
    [o \in firstId .. firstId + Len(options) - 1 |->
        [poll_id |-> pollId, text |-> Trim(options[Len(options) - (o - firstId)]),
         votes |-> 0]]

\* const optionsToInsert = optionsArray.map(...)
OptionsToInsert(pollId, options, firstId) ==
    [o \in firstId .. firstId + Len(options) - 1 |->
        [poll_id |-> pollId, text |-> Trim(options[o - firstId + 1]), votes |-> 0]]

\* createPoll up to the return of .from('polls').insert(...).select().single()
CreatePoll(user, title, description, options, dbOk) ==
    /\ editor.pc = "idle"
    /\ LET verdict == ValidateCreate(user, title, options)
       IN  IF verdict # "valid"
           THEN /\ editor' = Failed(verdict)
                /\ UNCHANGED <<polls, nextPollId>>
           ELSE IF ~dbOk
           THEN /\ editor' = Failed("Failed to create poll")
                /\ UNCHANGED <<polls, nextPollId>>
           ELSE /\ polls' = (nextPollId :>
                               [title |-> Trim(title),
                                description |-> IF Trim(description) = <<>> THEN Null
                                                ELSE Trim(description),
                                created_by |-> user]) @@ polls
                /\ nextPollId' = nextPollId + 1
                /\ editor' = [IdleEditor EXCEPT !.pc = "createOptions",
                                                !.pollId = nextPollId,
                                                !.options = options.items,
                                                !.result = "pending"]
    /\ UNCHANGED <<poll_options, nextOptionId, voter, detail, histVars>>

\* the batch insert returns and createPoll redirects whatever it returned
CreatePollOptionsUnchecked(dbOk) ==
    /\ editor.pc = "createOptions"
    /\ IF dbOk /\ editor.pollId \in DOMAIN polls
       THEN /\ poll_options' =
                  OptionsToInsert(editor.pollId, editor.options, nextOptionId)
                  @@ poll_options
            /\ nextOptionId' = nextOptionId + Len(editor.options)
       ELSE UNCHANGED <<poll_options, nextOptionId>>
    /\ editor' = [IdleEditor EXCEPT !.pollId = editor.pollId, !.result = "redirect"]
    /\ UNCHANGED <<polls, nextPollId, voter, detail, histVars>>

\* the batch insert into poll_options returns; the foreign key rejects rows
\* of a poll that is gone
CreatePollOptions(dbOk) ==
    /\ editor.pc = "createOptions"
    /\ IF dbOk /\ editor.pollId \in DOMAIN polls
       THEN /\ poll_options' =
                  OptionsToInsert(editor.pollId, editor.options, nextOptionId)
                  @@ poll_options
            /\ nextOptionId' = nextOptionId + Len(editor.options)
            /\ editor' = [IdleEditor EXCEPT !.pollId = editor.pollId, !.result = "redirect"]
       ELSE /\ editor' = Failed("Failed to create poll options")
            /\ UNCHANGED <<poll_options, nextOptionId>>
    /\ UNCHANGED <<polls, nextPollId, voter, detail, histVars>>

(***************************************************************************)
(* deletePoll(pollId): one delete, cascading to the poll's options.        *)
(***************************************************************************)
DeletePoll(pollId, dbOk) ==
    /\ IF dbOk
       THEN /\ polls' = [q \in DOMAIN polls \ {pollId} |-> polls[q]]
            /\ poll_options' = CascadeDelete(poll_options, pollId)
       ELSE UNCHANGED <<polls, poll_options>>
    /\ UNCHANGED <<nextPollId, nextOptionId, voter, editor, detail, histVars>>

(***************************************************************************)
(* updatePoll(updateData): the polls update, the select of the existing    *)
(* options, one insert or text update per submitted option, one delete per *)
(* removed option. An option id 'new_<n>' is the number -n.                *)
(***************************************************************************)
\* option.id.startsWith('new_')
IsNew(id) == id < 0

\* existingOptions?.find(opt => opt.id === id), as an index (0: none)
FindExisting(existing, id) ==
    IF \E j \in 1 .. Len(existing) : existing[j].id = id
    THEN CHOOSE j \in 1 .. Len(existing) : existing[j].id = id
    ELSE 0

\* whether the loop body issues a query for this submitted option
NeedsQuery(option, existing) ==
    \/ IsNew(option.id)
    \/ LET j == FindExisting(existing, option.id)
       IN  j # 0 /\ existing[j].text # option.text

\* the first submitted option at or after i that issues a query
RECURSIVE NextQuery(_, _, _)
NextQuery(options, existing, i) ==
    IF i > Len(options) THEN i
    ELSE IF NeedsQuery(options[i], existing) THEN i
    ELSE NextQuery(options, existing, i + 1)

\* the removal list left empty
OptionsToRemoveNone(options, existing) == <<>>

\* existingOptions.filter(opt => !currentOptionIds.includes(opt.id))
OptionsToRemove(options, existing) ==
    LET currentOptionIds == {options[k].id : k \in {k \in 1 .. Len(options) : ~IsNew(options[k].id)}}
    IN  SelectSeq(existing, LAMBDA opt : opt.id \notin currentOptionIds)

\* where updatePoll waits next, having dealt with the submitted options before i
AfterOptions(e, existing, i) ==
    LET j == NextQuery(e.options, existing, i)
    IN  IF j <= Len(e.options)
        THEN [e EXCEPT !.pc = "updateOption", !.existing = existing, !.i = j]
        ELSE IF OptionsToRemove(e.options, existing) # <<>>
        THEN [e EXCEPT !.pc = "removeOption", !.existing = existing, !.i = 1]
        ELSE [IdleEditor EXCEPT !.result = "success"]

\* updatePoll is called and its polls update returns
UpdatePoll(pollId, title, description, options, dbOk) ==
    /\ editor.pc = "idle"
    /\ IF dbOk
       THEN /\ polls' = [q \in DOMAIN polls |->
                           IF q = pollId
                           THEN [polls[q] EXCEPT !.title = title,
                                     !.description = IF description = <<>> THEN Null
                                                     ELSE description]
                           ELSE polls[q]]
            /\ editor' = [IdleEditor EXCEPT !.pc = "fetchOptions", !.pollId = pollId,
                                            !.options = options, !.result = "pending"]
       ELSE /\ editor' = Failed("Failed to update poll")
            /\ UNCHANGED polls
    /\ UNCHANGED <<poll_options, nextPollId, nextOptionId, voter, detail, histVars>>

\* the row inserted with the votes the caller submitted
NewOptionRowAsSubmitted(pollId, option) ==
    [poll_id |-> pollId, text |-> option.text, votes |-> option.votes]

\* .insert({ poll_id: updateData.pollId, text: option.text, votes: 0 })
NewOptionRow(pollId, option) ==
    [poll_id |-> pollId, text |-> option.text, votes |-> 0]

\* .from('poll_options').select('id, text').eq('poll_id', pollId) returns
UpdatePollFetch(dbOk) ==
    /\ editor.pc = "fetchOptions"
    /\ editor' =
          IF dbOk
          THEN LET rows == EmbedOptions(poll_options, editor.pollId)
                   existingOptions == [j \in 1 .. Len(rows) |->
                                          [id |-> rows[j].id, text |-> rows[j].text]]
               IN  AfterOptions(editor, existingOptions, 1)
          ELSE Failed("Failed to fetch existing options")
    /\ UNCHANGED <<dbVars, voter, detail, histVars>>

\* the insert or the text update of submitted option i returns
UpdatePollOption(dbOk) ==
    /\ editor.pc = "updateOption"
    /\ LET option == editor.options[editor.i]
       IN  IF IsNew(option.id)
           THEN IF dbOk /\ editor.pollId \in DOMAIN polls
                THEN /\ poll_options' =
                           (nextOptionId :> NewOptionRow(editor.pollId, option))
                           @@ poll_options
                     /\ nextOptionId' = nextOptionId + 1
                     /\ editor' = AfterOptions(editor, editor.existing, editor.i + 1)
                ELSE /\ editor' = Failed("Failed to add new option")
                     /\ UNCHANGED <<poll_options, nextOptionId>>
           ELSE IF dbOk
                THEN /\ poll_options' = UpdateText(poll_options, option.id, option.text)
                     /\ editor' = AfterOptions(editor, editor.existing, editor.i + 1)
                     /\ UNCHANGED nextOptionId
                ELSE /\ editor' = Failed("Failed to update option")
                     /\ UNCHANGED <<poll_options, nextOptionId>>
    /\ UNCHANGED <<polls, nextPollId, voter, detail, histVars>>

\* the delete of removed option i returns
UpdatePollRemove(dbOk) ==
    /\ editor.pc = "removeOption"
    /\ LET optionsToRemove == OptionsToRemove(editor.options, editor.existing)
       IN  IF dbOk
           THEN /\ poll_options' = DeleteOption(poll_options, optionsToRemove[editor.i].id)
                /\ editor' =
                      IF editor.i < Len(optionsToRemove)
                      THEN [editor EXCEPT !.i = @ + 1]
                      ELSE [IdleEditor EXCEPT !.result = "success"]
           ELSE /\ editor' = Failed("Failed to remove option")
                /\ UNCHANGED poll_options
    /\ UNCHANGED <<polls, nextPollId, nextOptionId, voter, detail, histVars>>


(***************************************************************************)
(* PollVotingForm({ pollId, options, totalVotes }): the client component   *)
(* and its useState values.                                                *)
(***************************************************************************)
\* a prop the mounting page does not pass
Undefined == -2

\* an id that is missing or '' (falsy)
Empty == 0

\* the session whose browser shows the form
FormSession == 1

NoForm == [mounted |-> FALSE, pollId |-> Empty, selectedOption |-> Empty,
           hasVoted |-> FALSE, isSubmitting |-> FALSE, error |-> Null,
           localOptions |-> <<>>, localTotalVotes |-> 0]

\* the component is rendered: the initial useState values
PollVotingForm(pollId, options, totalVotes) ==
    [mounted |-> TRUE, pollId |-> pollId, selectedOption |-> Empty,
     hasVoted |-> FALSE, isSubmitting |-> FALSE, error |-> Null,
     localOptions |-> options, localTotalVotes |-> totalVotes]

\* a + b of two numbers, either of which may be undefined or NaN
JsAdd(a, b) == IF a < 0 \/ b < 0 THEN NaN ELSE a + b

\* `Failed to submit vote: ${error.message}`
FormError(message) == <<"Failed to submit vote: ", message>>

\* the button disabled only without a selection or while submitting
SubmitDisabledWhileSubmitting(f) == f.selectedOption = Empty \/ f.isSubmitting

\* disabled={!selectedOption || isSubmitting || hasVoted}
SubmitDisabled(f) == f.selectedOption = Empty \/ f.isSubmitting \/ f.hasVoted

\* handleVote up to its await: setIsSubmitting(true); setError(null)
BeforeSubmitVote(f) == [f EXCEPT !.isSubmitting = TRUE, !.error = Null]

\* handleVote with the counts raised before the call is known to succeed
AfterSubmitVoteOptimistic(f, result) ==
    [f EXCEPT !.localOptions =
                  [i \in 1 .. Len(@) |->
                      IF @[i].id = f.selectedOption
                      THEN [@[i] EXCEPT !.votes = JsAdd(@, 1)]
                      ELSE @[i]],
              !.localTotalVotes = JsAdd(@, 1),
              !.hasVoted = (result = "ok"),
              !.error = IF result = "ok" THEN f.error ELSE FormError(result),
              !.isSubmitting = FALSE]

\* handleVote after its await: the try block when submitVote returned, the
\* catch block when it threw, then the finally block
AfterSubmitVote(f, result) ==
    IF result = "ok"
    THEN [f EXCEPT !.localOptions =
                       [i \in 1 .. Len(@) |->
                           IF @[i].id = f.selectedOption
                           THEN [@[i] EXCEPT !.votes = JsAdd(@, 1)]
                           ELSE @[i]],
                   !.localTotalVotes = JsAdd(@, 1),
                   !.hasVoted = TRUE,
                   !.isSubmitting = FALSE]
    ELSE [f EXCEPT !.error = FormError(result), !.isSubmitting = FALSE]

\* the page renders the form for the poll it fetched
FormMount ==
    /\ detail.status = "ok"
    /\ ~form.mounted
    /\ form' = PollVotingForm(detail.id, detail.options, Undefined)
    /\ UNCHANGED <<dbVars, voter, editor, detail, histVars>>

\* onChange of an option's radio button, shown while !hasVoted
FormSelect(optionId) ==
    /\ form.mounted
    /\ ~form.hasVoted
    /\ \E i \in 1 .. Len(form.localOptions) : form.localOptions[i].id = optionId
    /\ form' = [form EXCEPT !.selectedOption = optionId]
    /\ UNCHANGED <<dbVars, voter, editor, detail, histVars>>

\* onClick of the enabled button: handleVote runs until submitVote's select
\* has returned, and to its end when submitVote throws there
FormHandleVote(dbOk) ==
    /\ form.mounted
    /\ ~SubmitDisabled(form)
    /\ SubmitVoteRead(FormSession, form.pollId, form.selectedOption, dbOk)
    /\ form' = IF voter'[FormSession].pc = "write"
                THEN BeforeSubmitVote(form)
                ELSE AfterSubmitVote(BeforeSubmitVote(form),
                                     voter'[FormSession].result)

\* submitVote's update returns and handleVote runs to its end
FormHandleVoteReturn(dbOk) ==
    /\ form.mounted
    /\ form.isSubmitting
    /\ SubmitVoteWrite(FormSession, dbOk)
    /\ form' = AfterSubmitVote(form, voter'[FormSession].result)

(***************************************************************************)
(* handleVote(formData) of the poll page: the form action.                 *)
(***************************************************************************)
HandleVote(p, pollId, optionId, dbOk) ==
    IF pollId = Empty \/ optionId = Empty
    THEN /\ voter[p].pc = "idle"
         /\ voter' = [voter EXCEPT ![p] =
                [pc |-> "idle", pollId |-> pollId, optionId |-> optionId,
                 currentVotes |-> 0,
                 result |-> "Poll ID and option ID are required"]]
         /\ UNCHANGED <<dbVars, editor, detail, histVars>>
    ELSE SubmitVoteRead(p, pollId, optionId, dbOk)

(***************************************************************************)
(* The initial state: an empty datastore, nothing in flight.               *)
(***************************************************************************)
Init ==
    /\ polls = <<>>
    /\ poll_options = <<>>
    /\ nextPollId = 1
    /\ nextOptionId = 1
    /\ voter = [p \in Voters |-> IdleVoter]
    /\ editor = IdleEditor
    /\ detail = NoDetail
    /\ accepted = [o \in OptionIds |-> 0]
    /\ ballots = {}
    /\ form = NoForm

RECURSIVE SumOver(_, _)
SumOver(f, S) ==
    IF S = {} THEN 0
    ELSE LET x == CHOOSE y \in S : TRUE IN f[x] + SumOver(f, S \ {x})

InFlight == {p \in Voters : voter[p].pc = "write"}

\* submitVote calls that returned success or are in flight
CallsCounted == SumOver(accepted, OptionIds) + Cardinality(InFlight)

\* form data submitted to createPoll
ValidOptions  == JsonArray(<< <<"a">>, <<" ", "b">> >>)
CreateUsers   == {"u1", NoUser}
CreateTitles  == {<<"q">>, <<" ">>, <<>>}
CreateOptions == {ValidOptions, JsonArray(<< <<"a">>, <<" ">> >>),
                  JsonArray(<< <<"a">> >>), JsonArray(<<>>), BadJson, NotArray}

\* the update data submitted for a poll: the stored options with one of them
\* dropped or given a new text, or with one option added, or as they are, with
\* the votes the edit form read or with other votes
EditedOptions(pollId) ==
    LET rows == EmbedOptions(poll_options, pollId)
        n    == Len(rows)
        Entry(j, how) == [id |-> rows[j].id,
                          text |-> IF how = "retext" THEN <<"z">> ELSE rows[j].text,
                          votes |-> rows[j].votes]
        Kept(choice) == SelectSeq([j \in 1 .. n |-> Entry(j, choice[j])],
                                  LAMBDA e : \E j \in 1 .. n :
                                      rows[j].id = e.id /\ choice[j] # "drop")
        Added == <<[id |-> -1, text |-> <<"n">>, votes |-> 0]>>
        OneChange == {c \in [1 .. n -> {"drop", "keep", "retext"}] :
                         Cardinality({j \in 1 .. n : c[j] # "keep"}) <= 1}
        Honest == {Kept(choice) : choice \in OneChange}
                  \cup {Kept([j \in 1 .. n |-> "keep"]) \o Added}
        \* the same data with votes the caller made up
        Forged(options) == [k \in 1 .. Len(options) |->
                               [options[k] EXCEPT !.votes = @ + 1]]
    IN  Honest \cup {Forged(options) : options \in Honest}

\* the update data with one option added, or with the first option dropped
GrownOrShrunk(pollId) ==
    LET rows == EmbedOptions(poll_options, pollId)
    IN  {rows \o <<[id |-> -1, text |-> <<"n">>, votes |-> 0]>>}
        \cup (IF rows = <<>> THEN {} ELSE {Tail(rows)})

HasNew(options) == \E k \in 1 .. Len(options) : IsNew(options[k].id)

\* one of `sessions` calls submitVote while fewer than `bound` calls count
Vote(sessions, bound) ==
    \E p \in sessions, pollId \in PollIds, optionId \in OptionIds, dbOk \in BOOLEAN :
        /\ CallsCounted < bound
        /\ pollId < nextPollId
        /\ optionId < nextOptionId
        /\ SubmitVoteRead(p, pollId, optionId, dbOk)
        /\ UNCHANGED form

Write == \E p \in Voters, dbOk \in BOOLEAN :
             SubmitVoteWrite(p, dbOk) /\ UNCHANGED form

Read == \E id \in PollIds, dbOk \in BOOLEAN :
            PollDetailPage(id, dbOk) /\ UNCHANGED form

\* createPoll is called while fewer than `bound` polls were inserted
Create(bound, rowBound, users, titles, optionSets) ==
    \E user \in users, title \in titles, options \in optionSets, dbOk \in BOOLEAN :
        /\ nextPollId <= bound
        /\ nextOptionId + Len(options.items) - 1 <= rowBound
        /\ CreatePoll(user, title, <<" ">>, options, dbOk)
        /\ UNCHANGED form

CreateStep == \E dbOk \in BOOLEAN : CreatePollOptions(dbOk) /\ UNCHANGED form

Delete == \E pollId \in PollIds, dbOk \in BOOLEAN :
              pollId < nextPollId /\ DeletePoll(pollId, dbOk) /\ UNCHANGED form

\* updatePoll is called with one of the update data `choices` holds for the poll
UpdateFrom(choices, rowBound) ==
    \E pollId \in PollIds, dbOk \in BOOLEAN :
        \E options \in choices[pollId] :
            /\ pollId < nextPollId
            /\ HasNew(options) => nextOptionId <= rowBound
            /\ UpdatePoll(pollId, <<"q">>, <<>>, options, dbOk)
            /\ UNCHANGED form

Update == UpdateFrom([id \in PollIds |-> EditedOptions(id)], EditOptions)

UpdateFetch  == \E dbOk \in BOOLEAN : UpdatePollFetch(dbOk) /\ UNCHANGED form
UpdateOption == \E dbOk \in BOOLEAN : UpdatePollOption(dbOk) /\ UNCHANGED form
UpdateRemove == \E dbOk \in BOOLEAN : UpdatePollRemove(dbOk) /\ UNCHANGED form

(***************************************************************************)
(* Spec: one poll; a session votes while the poll is created, edited and   *)
(* deleted, every datastore round trip interleaved.                        *)
(***************************************************************************)
Next ==
    \/ Vote(1 .. EditVoters, MaxCalls)
    \/ Write
    \/ Create(EditPolls, EditOptions, CreateUsers, CreateTitles, CreateOptions)
    \/ CreateStep
    \/ Delete
    \/ Update
    \/ UpdateFetch
    \/ UpdateOption
    \/ UpdateRemove

Spec == Init /\ [][Next]_vars

(***************************************************************************)
(* SpecLife: Spec with the poll page read at any moment, the update data   *)
(* adding or dropping an option.                                           *)
(***************************************************************************)
NextLife ==
    \/ Vote(1 .. EditVoters, LifeCalls)
    \/ Write
    \/ Create(EditPolls, EditOptions, {"u1"}, {<<"q">>}, {ValidOptions})
    \/ CreateStep
    \/ Delete
    \/ UpdateFrom([id \in PollIds |-> GrownOrShrunk(id)], EditOptions)
    \/ UpdateFetch
    \/ UpdateOption
    \/ UpdateRemove
    \/ Read

SpecLife == Init /\ [][NextLife]_vars

(***************************************************************************)
(* SpecCross: two polls are created and deleted while sessions vote, with  *)
(* any poll id and any option id.                                          *)
(***************************************************************************)
NextCross ==
    \/ Vote(Voters, CrossCalls)
    \/ Write
    \/ Create(MaxPolls, MaxOptions, {"u1"}, {<<"q">>}, {ValidOptions})
    \/ CreateStep
    \/ Delete

SpecCross == Init /\ [][NextCross]_vars

(***************************************************************************)
(* SpecLive: SpecCross where the datastore answers every request: the      *)
(* update a call awaits returns, with a result or with an error.           *)
(***************************************************************************)
UpdateReturns(p) == \E dbOk \in BOOLEAN : SubmitVoteWrite(p, dbOk) /\ UNCHANGED form

SpecLive == SpecCross /\ \A p \in Voters : WF_vars(UpdateReturns(p))

(***************************************************************************)
(* SpecOwner: SpecCross with the session that invokes deletePoll named:    *)
(* the poll's creator, another signed-in user, or nobody signed in.        *)
(***************************************************************************)
Callers == {"u1", "u2", NoUser}

\* the browser session of `user` invokes the server action deletePoll(pollId);
\* the action creates its client from the secret key and never asks who calls
DeletePollBy(user, pollId, dbOk) == DeletePoll(pollId, dbOk) /\ UNCHANGED form

DeleteBy == \E user \in Callers, pollId \in PollIds, dbOk \in BOOLEAN :
                pollId < nextPollId /\ DeletePollBy(user, pollId, dbOk)

NextOwner ==
    \/ Vote(Voters, CrossCalls)
    \/ Write
    \/ Create(MaxPolls, MaxOptions, {"u1"}, {<<"q">>}, {ValidOptions})
    \/ CreateStep
    \/ DeleteBy

SpecOwner == Init /\ [][NextOwner]_vars

(***************************************************************************)
(* SpecCreate: createPoll with titles, descriptions and option texts typed *)
(* with and without surrounding blanks, by signed-in users and by nobody,  *)
(* while polls are deleted.                                                *)
(***************************************************************************)
TypedTitles       == {<<"q">>, <<" ", "q", " ">>, <<" ">>}
TypedDescriptions == {<<>>, <<" ">>, <<"d", " ">>}
TypedOptions      == {ValidOptions, JsonArray(<< <<"b", " ">>, <<"a">>, <<"b">> >>),
                      JsonArray(<< <<"a">> >>)}

CreateTyped ==
    \E user \in Callers, title \in TypedTitles, description \in TypedDescriptions,
       options \in TypedOptions, dbOk \in BOOLEAN :
        /\ nextPollId <= MaxPolls
        /\ nextOptionId + Len(options.items) - 1 <= CreateRows
        /\ CreatePoll(user, title, description, options, dbOk)
        /\ UNCHANGED form

NextCreate ==
    \/ CreateTyped
    \/ CreateStep
    \/ Delete

SpecCreate == Init /\ [][NextCreate]_vars

(***************************************************************************)
(* SpecEdit: one poll is voted on and then edited, with update data that   *)
(* drops, retexts, adds and names unknown options at once; nothing else    *)
(* runs while an updatePoll call is in progress.                           *)
(***************************************************************************)
\* an option id no row has
UnknownId == MaxOptions + 1

\* the update data: each stored option dropped, kept or given a new text, with
\* or without an option added, with or without an entry of an unknown id
Reconciled(pollId) ==
    LET rows == EmbedOptions(poll_options, pollId)
        n    == Len(rows)
        Entry(j, how) == [id |-> rows[j].id,
                          text |-> IF how = "retext" THEN <<"z">> ELSE rows[j].text,
                          votes |-> rows[j].votes]
        Kept(choice) == SelectSeq([j \in 1 .. n |-> Entry(j, choice[j])],
                                  LAMBDA e : \E j \in 1 .. n :
                                      rows[j].id = e.id /\ choice[j] # "drop")
        Added   == <<[id |-> -1, text |-> <<"n">>, votes |-> 0]>>
        Unknown == <<[id |-> UnknownId, text |-> <<"u">>, votes |-> 0]>>
    IN  {extra \o Kept(choice) \o added :
            choice \in [1 .. n -> {"drop", "keep", "retext"}],
            added \in {<<>>, Added}, extra \in {<<>>, Unknown}}

VoteBetween == editor.pc = "idle" /\ Vote(1 .. EditVoters, AloneCalls)

UpdateAlone ==
    /\ InFlight = {}
    /\ UpdateFrom([id \in PollIds |-> Reconciled(id)], EditOptions)

NextEdit ==
    \/ VoteBetween
    \/ Write
    \/ Create(EditPolls, EditOptions, {"u1"}, {<<"q">>}, {ValidOptions})
    \/ CreateStep
    \/ UpdateAlone
    \/ UpdateFetch
    \/ UpdateOption
    \/ UpdateRemove

SpecEdit == Init /\ [][NextEdit]_vars

(***************************************************************************)
(* SpecKeep: sessions call submitVote while an updatePoll call that keeps  *)
(* every option of the poll, retexting one or none, is in progress.        *)
(***************************************************************************)
Retexted(pollId) ==
    LET rows == EmbedOptions(poll_options, pollId)
    IN  {[j \in 1 .. Len(rows) |->
             [rows[j] EXCEPT !.text = IF j = changed THEN <<"z">> ELSE @]] :
         changed \in 0 .. Len(rows)}

VoteDuringUpdate == editor.pc \in {"fetchOptions", "updateOption"}
                    /\ Vote(Voters, KeepCalls)

NextKeep ==
    \/ VoteDuringUpdate
    \/ Write
    \/ Create(EditPolls, EditOptions, {"u1"}, {<<"q">>}, {ValidOptions})
    \/ CreateStep
    \/ UpdateFrom([id \in PollIds |-> Retexted(id)], EditOptions)
    \/ UpdateFetch
    \/ UpdateOption

SpecKeep == Init /\ [][NextKeep]_vars

(***************************************************************************)
(* SpecRead: sessions vote concurrently on one poll while the poll page is *)
(* read.                                                                   *)
(***************************************************************************)
NextRead ==
    \/ Vote(Voters, ReadCalls)
    \/ Write
    \/ Create(1, MaxOptions, {"u1"}, {<<"q">>}, {ValidOptions})
    \/ CreateStep
    \/ Read

SpecRead == Init /\ [][NextRead]_vars

(***************************************************************************)
(* SpecSeq: the submitVote calls do not overlap: one is called only when   *)
(* none is in flight.                                                      *)
(***************************************************************************)
VoteAlone == InFlight = {} /\ Vote(Voters, SeqCalls)

NextSeq ==
    \/ VoteAlone
    \/ Write
    \/ Create(1, MaxOptions, {"u1"}, {<<"q">>}, {ValidOptions})
    \/ CreateStep
    \/ Read

SpecSeq == Init /\ [][NextSeq]_vars

(***************************************************************************)
(* SpecApart: sessions vote concurrently on two polls, never two at once   *)
(* on the same option.                                                     *)
(***************************************************************************)
VoteApart ==
    \E optionId \in OptionIds :
        /\ \A q \in InFlight : voter[q].optionId # optionId
        /\ \E p \in Voters, pollId \in PollIds, dbOk \in BOOLEAN :
               /\ CallsCounted < ApartCalls
               /\ pollId < nextPollId
               /\ optionId < nextOptionId
               /\ SubmitVoteRead(p, pollId, optionId, dbOk)
               /\ UNCHANGED form

NextApart ==
    \/ VoteApart
    \/ Write
    \/ Create(MaxPolls, MaxOptions, {"u1"}, {<<"q">>}, {ValidOptions})
    \/ CreateStep

SpecApart == Init /\ [][NextApart]_vars

(***************************************************************************)
(* SpecForm: one session votes through the PollVotingForm the poll page    *)
(* mounted; the other sessions submit the page's form action or invoke the *)
(* server action submitVote, with any ids or none.                         *)
(***************************************************************************)
OtherSessions == Voters \ {FormSession}

AnyPollId   == {Empty} \cup PollIds
AnyOptionId == {Empty} \cup OptionIds

Mount == FormMount

Select == \E optionId \in OptionIds : FormSelect(optionId)

Click == \E dbOk \in BOOLEAN :
             CallsCounted < FormCalls /\ FormHandleVote(dbOk)

Return == \E dbOk \in BOOLEAN : FormHandleVoteReturn(dbOk)

PageVote ==
    \E p \in OtherSessions, pollId \in AnyPollId, optionId \in AnyOptionId,
       dbOk \in BOOLEAN :
        /\ CallsCounted < FormCalls
        /\ pollId < nextPollId
        /\ optionId < nextOptionId
        /\ HandleVote(p, pollId, optionId, dbOk)
        /\ UNCHANGED form

Invoke ==
    \E p \in OtherSessions, pollId \in AnyPollId, optionId \in AnyOptionId,
       dbOk \in BOOLEAN :
        /\ CallsCounted < FormCalls
        /\ pollId < nextPollId
        /\ optionId < nextOptionId
        /\ SubmitVoteRead(p, pollId, optionId, dbOk)
        /\ UNCHANGED form

WriteOther == \E p \in OtherSessions, dbOk \in BOOLEAN :
                  SubmitVoteWrite(p, dbOk) /\ UNCHANGED form

NextForm ==
    \/ Create(1, MaxOptions, {"u1"}, {<<"q">>}, {ValidOptions})
    \/ CreateStep
    \/ Read
    \/ Mount
    \/ Select
    \/ Click
    \/ Return
    \/ PageVote
    \/ Invoke
    \/ WriteOther

SpecForm == Init /\ [][NextForm]_vars

(***************************************************************************)
(* SpecPct: a stored poll with any votes on its options is read.           *)
(***************************************************************************)
PctVectors ==
    {v \in [1 .. 2 -> 0 .. PctTotal] : v[1] + v[2] <= PctTotal}
    \cup UNION {[1 .. n -> 0 .. PctVotes] : n \in 1 .. PctOptions}

InitPct ==
    \E v \in PctVectors :
        /\ polls = (1 :> [title |-> <<"q">>, description |-> Null, created_by |-> "u1"])
        /\ poll_options = [o \in DOMAIN v |->
                              [poll_id |-> 1, text |-> <<"a">>, votes |-> v[o]]]
        /\ nextPollId = 2
        /\ nextOptionId = Len(v) + 1
        /\ voter = [p \in Voters |-> IdleVoter]
        /\ editor = IdleEditor
        /\ detail = NoDetail
        /\ accepted = [o \in OptionIds |-> 0]
        /\ ballots = {}
        /\ form = NoForm

SpecPct == InitPct /\ [][Read]_vars

(***************************************************************************)
(* The properties.                                                         *)
(***************************************************************************)
RECURSIVE SumSeq(_)
SumSeq(q) == IF q = <<>> THEN 0 ELSE Head(q) + SumSeq(Tail(q))

Abs(n) == IF n < 0 THEN -n ELSE n

VotesRead == [i \in 1 .. Len(detail.options) |-> detail.options[i].votes]

\* C8 as the specification states it: the percentages of a poll with at
\* least one vote sum to a value in 99 .. 101, whatever the number of options.
C8_SumWithin99To101 ==
    (detail.status = "ok" /\ detail.total_votes > 0)
        => SumSeq(detail.percentages) \in 99 .. 101

\* C8: the percentages of a poll with n options and at least one vote sum to
\* a value within n/2 of 100, hence in 99 .. 101 for up to three options; three
\* options with one vote each read 33 each, 99 in all.
C8_SumWithinHalfPerOption ==
    (detail.status = "ok" /\ detail.total_votes > 0)
        => /\ 2 * Abs(SumSeq(detail.percentages) - 100) <= Len(detail.options)
           /\ Len(detail.options) <= 3 => SumSeq(detail.percentages) \in 99 .. 101
           /\ VotesRead = <<1, 1, 1>> => detail.percentages = <<33, 33, 33>>

C8_ThreeWaySplitRead ==
    /\ detail.status = "ok"
    /\ VotesRead = <<1, 1, 1>>
    /\ SumSeq(detail.percentages) = 99

\* 100 * votes / totalVotes rounded half-up, in exact arithmetic
RoundHalfUp(votes, totalVotes) == (200 * votes + totalVotes) \div (2 * totalVotes)

\* C9: with totalVotes > 0 every displayed percentage is 100 * votes /
\* totalVotes rounded half-up to the nearest integer, and lies in 0 .. 100.
C9_RoundsHalfUp ==
    (detail.status = "ok" /\ detail.total_votes > 0)
        => \A i \in 1 .. Len(detail.options) :
               /\ detail.percentages[i] = RoundHalfUp(detail.options[i].votes,
                                                      detail.total_votes)
               /\ detail.percentages[i] \in 0 .. 100

C1_NoLostUpdate ==
    InFlight = {}
        => \A o \in DOMAIN poll_options : poll_options[o].votes = accepted[o]

\* C2: no step lowers the votes of an option that exists before and after it.
C2_VotesNeverDecrease ==
    [][\A o \in DOMAIN poll_options \cap DOMAIN poll_options' :
           poll_options'[o].votes >= poll_options[o].votes]_vars

\* C3: a submitVote call whose update matches no row, the option having been
\* deleted since the call read it, returns the write error.
C3_VanishedOptionFailsWrite ==
    [][\A p \in Voters :
           (/\ voter[p].pc = "write"
            /\ voter'[p].pc = "idle"
            /\ MatchOption(poll_options, voter[p].optionId, voter[p].pollId) = {})
               => voter'[p].result = "Failed to submit vote"]_vars

\* the call named poll pollId and an option stored under another poll
CrossPoll(pollId, optionId) ==
    /\ pollId \in DOMAIN polls
    /\ optionId \in DOMAIN poll_options
    /\ poll_options[optionId].poll_id # pollId
    /\ poll_options[optionId].poll_id \in DOMAIN polls

\* C4: submitVote called with a poll and an option of another poll returns
\* the fetch error at once and changes no option row.
C4_CrossPollRejected ==
    [][\A p \in Voters :
           (/\ voter[p].pc = "idle"
            /\ voter'[p] # voter[p]
            /\ CrossPoll(voter'[p].pollId, voter'[p].optionId))
               => /\ voter'[p].pc = "idle"
                  /\ voter'[p].result = "Failed to fetch current vote count"
                  /\ poll_options' = poll_options]_vars

C4_CrossPollCallFailed ==
    \E p \in Voters :
        /\ voter[p].pc = "idle"
        /\ voter[p].result = "Failed to fetch current vote count"
        /\ CrossPoll(voter[p].pollId, voter[p].optionId)

\* C5: the votes stored for a poll never exceed the number of sessions whose
\* vote on that poll was accepted: a session's further vote adds nothing.
C5_OneVotePerSession ==
    \A q \in DOMAIN polls :
        SumSeq([i \in 1 .. Len(EmbedOptions(poll_options, q)) |->
                   EmbedOptions(poll_options, q)[i].votes])
            <= Cardinality({b \in ballots : b[2] = q})

\* C6: when the calls do not overlap, a read of the poll returns for each
\* option the number of successful calls that named it, their number in all as
\* total_votes, and percentages within one half of each share: 3 and 1 votes
\* read as 75 and 25.
C6_SequentialTally ==
    [][(detail' # detail /\ detail'.status = "ok")
          => /\ \A i \in 1 .. Len(detail'.options) :
                    /\ detail'.options[i].votes = accepted[detail'.options[i].id]
                    /\ detail'.total_votes > 0 =>
                           2 * Abs(100 * detail'.options[i].votes
                                   - detail'.percentages[i] * detail'.total_votes)
                               <= detail'.total_votes
             /\ detail'.total_votes = SumOver(accepted, OptionIds)
             /\ (accepted[1] = 3 /\ accepted[2] = 1)
                    => detail'.percentages = <<75, 25>>]_vars

C6_ThreeRedOneBlue ==
    /\ detail.status = "ok"
    /\ VotesRead = <<3, 1>>
    /\ detail.total_votes = 4
    /\ detail.percentages = <<75, 25>>
    /\ accepted[1] = 3 /\ accepted[2] = 1

\* C7: the total_votes of every result read is the sum of the votes of the
\* options in that result, also while submitVote calls are in flight.
C7_TotalIsSumOfOptionsRead ==
    detail.status = "ok" => detail.total_votes = SumSeq(VotesRead)

C7_ReadDuringVotes ==
    /\ detail.status = "ok"
    /\ detail.total_votes = 1
    /\ InFlight # {}
    /\ detail.options # EmbedOptions(poll_options, detail.id)

C12_OnlyTargetVotesChange ==
    [][\A p \in Voters :
           /\ (voter[p].pc = "write" /\ voter'[p].pc = "idle")
                  => /\ polls' = polls
                     /\ DOMAIN poll_options' = DOMAIN poll_options
                     /\ \A o \in DOMAIN poll_options :
                            /\ poll_options'[o].text = poll_options[o].text
                            /\ poll_options'[o].poll_id = poll_options[o].poll_id
                            /\ o # voter[p].optionId
                                   => poll_options'[o].votes = poll_options[o].votes
           /\ (voter[p].pc = "idle" /\ voter'[p] # voter[p])
                  => UNCHANGED <<polls, poll_options>>]_vars

C12_VoteBesideOtherOptions ==
    \E p \in Voters :
        /\ voter[p].pc = "idle"
        /\ voter[p].result = "ok"
        /\ voter[p].optionId \in DOMAIN poll_options
        /\ poll_options[voter[p].optionId].votes = 1
        /\ \E o \in DOMAIN poll_options :
               /\ o # voter[p].optionId
               /\ poll_options[o].poll_id = voter[p].pollId
               /\ poll_options[o].votes = 0
        /\ \E o \in DOMAIN poll_options : poll_options[o].poll_id # voter[p].pollId

\* C13: when no two submitVote calls in flight at once name the same option,
\* each option's votes is, once all calls have returned, the number of
\* successful calls that named it.
C13_DisjointCallsAllCounted ==
    InFlight = {}
        => \A o \in DOMAIN poll_options : poll_options[o].votes = accepted[o]

C13_TwoCallsOnTwoPolls ==
    /\ Cardinality(InFlight) = 2
    /\ \E p, q \in InFlight : voter[p].pollId # voter[q].pollId
    /\ \E o \in DOMAIN poll_options : poll_options[o].votes = 1

\* C14: no step of createPoll, updatePoll or deletePoll changes the votes of an
\* option stored before and after it, whatever votes the update data carries,
\* and every option row such a step inserts has 0 votes.
C14_OnlySubmitVoteChangesVotes ==
    [][voter' = voter
          => /\ \A o \in DOMAIN poll_options \cap DOMAIN poll_options' :
                    poll_options'[o].votes = poll_options[o].votes
             /\ \A o \in DOMAIN poll_options' \ DOMAIN poll_options :
                    poll_options'[o].votes = 0]_vars

C14_EditedAfterVote ==
    /\ editor.result = "success"
    /\ \E o \in DOMAIN poll_options :
           poll_options[o].votes = 1 /\ poll_options[o].text = <<"z">>
    /\ \E o \in DOMAIN poll_options :
           poll_options[o].votes = 0 /\ poll_options[o].text = <<"n">>

\* every stored option names a stored poll
OptionsHavePolls ==
    \A o \in DOMAIN poll_options : poll_options[o].poll_id \in DOMAIN polls

\* C15: every stored option names a stored poll; a step that deletes a poll
\* leaves no option of it; a read of a poll that is not stored returns absent;
\* a submitVote call naming a poll that is not stored fails at its fetch and
\* changes no row.
C15_NoOptionWithoutPoll ==
    /\ []OptionsHavePolls
    /\ [][/\ \A q \in DOMAIN polls \ DOMAIN polls' :
                 \A o \in DOMAIN poll_options' : poll_options'[o].poll_id # q
          /\ (detail' # detail /\ detail'.id \notin DOMAIN polls)
                 => detail'.status = "notFound"
          /\ \A p \in Voters :
                 (/\ voter[p].pc = "idle"
                  /\ voter'[p] # voter[p]
                  /\ voter'[p].pollId \notin DOMAIN polls)
                     => /\ voter'[p].pc = "idle"
                        /\ voter'[p].result = "Failed to fetch current vote count"
                        /\ UNCHANGED <<polls, poll_options>>]_vars

C15_DeletedPollIsGone ==
    /\ polls = <<>>
    /\ poll_options = <<>>
    /\ nextPollId = 2
    /\ accepted[1] = 1
    /\ voter[1].pollId = 1
    /\ voter[1].result = "Failed to fetch current vote count"
    /\ detail.id = 1
    /\ detail.status = "notFound"

\* C16: the failure kinds are told apart: a read returns absent only for a
\* poll that is not stored, and submitVote fails with the message of a missing
\* or mismatched option only when the option is missing or mismatched; a
\* datastore failure shows as something else.
C16_FailureKindsDistinct ==
    [][/\ (detail' # detail /\ detail'.status = "notFound")
              => detail'.id \notin DOMAIN polls
       /\ \A p \in Voters :
              (/\ voter[p].pc = "idle"
               /\ voter'[p] # voter[p]
               /\ voter'[p].result = "Failed to fetch current vote count")
                  => SelectOption(poll_options, voter'[p].optionId,
                                  voter'[p].pollId) = NoRow]_vars

\* C17: a submitVote call with an empty poll id or option id ends at once with
\* the validation failure, on whatever path it was made.
C17_EmptyIdsRejected ==
    [][\A p \in Voters :
           (/\ voter[p].pc = "idle"
            /\ voter'[p] # voter[p]
            /\ (voter'[p].pollId = Empty \/ voter'[p].optionId = Empty))
               => /\ voter'[p].pc = "idle"
                  /\ voter'[p].result = "Poll ID and option ID are required"]_vars

\* C20: when submitVote throws inside the form's handleVote, localOptions and
\* localTotalVotes keep their values, hasVoted stays false, error is set to a
\* message and isSubmitting is false again.
C20_FailedVoteKeepsCounts ==
    [][(/\ form.mounted
        /\ voter'[FormSession] # voter[FormSession]
        /\ voter'[FormSession].pc = "idle"
        /\ voter'[FormSession].result # "ok")
           => /\ form'.localOptions = form.localOptions
              /\ form'.localTotalVotes = form.localTotalVotes
              /\ form'.hasVoted = FALSE
              /\ form'.error # Null
              /\ form'.error = FormError(voter'[FormSession].result)
              /\ form'.isSubmitting = FALSE]_vars

C20_FormShowsWriteFailure ==
    /\ form.mounted
    /\ form.error = FormError("Failed to submit vote")
    /\ ~form.hasVoted
    /\ ~form.isSubmitting
    /\ form.localOptions = detail.options
    /\ voter[FormSession].result = "Failed to submit vote"

C19_CallEndsInTwoRoundTrips ==
    /\ [][\A p \in Voters :
             voter'[p] # voter[p]
             => \/ /\ voter[p].pc = "idle"
                   /\ voter'[p].pc = "idle"
                   /\ voter'[p].result = "Failed to fetch current vote count"
                   /\ poll_options' = poll_options
                \/ /\ voter[p].pc = "idle"
                   /\ voter'[p].pc = "write"
                   /\ voter'[p].result = "pending"
                   /\ poll_options' = poll_options
                \/ /\ voter[p].pc = "write"
                   /\ voter'[p].pc = "idle"
                   /\ voter'[p].result \in {"ok", "Failed to submit vote"}]_vars
    /\ \A p \in Voters : (voter[p].pc = "write") ~> (voter[p].pc = "idle")

\* a call ended with success although its poll was deleted while it was in
\* flight, and another ended at its select
C19_EndedAfterPollDeleted ==
    \E p, q \in Voters :
        /\ voter[p].pc = "idle" /\ voter[p].result = "ok"
        /\ voter[p].pollId \notin DOMAIN polls
        /\ ballots = {<<p, voter[p].pollId>>}
        /\ SumOver(accepted, OptionIds) = 1
        /\ \A o \in DOMAIN poll_options : poll_options[o].votes = 0
        /\ voter[q].pc = "idle"
        /\ voter[q].result = "Failed to fetch current vote count"

\* C21: a deletePoll call by a session that is not signed in as the poll's
\* creator leaves the poll and its options stored.
C21_OnlyOwnerDeletes ==
    [][\A user \in Callers, pollId \in DOMAIN polls :
          (/\ user # polls[pollId].created_by
           /\ \E dbOk \in BOOLEAN : DeletePollBy(user, pollId, dbOk))
          => /\ pollId \in DOMAIN polls'
             /\ poll_options' = poll_options]_vars

\* C22: a createPoll call whose getUser gives no user fails with 'You must be
\* logged in to create a poll', whatever the form data, and stores no poll
\* and no option.
C22_UnauthenticatedCreateFails ==
    [][\A title \in CreateTitles, options \in CreateOptions, dbOk \in BOOLEAN :
          CreatePoll(NoUser, title, <<" ">>, options, dbOk)
          => /\ editor' = Failed("You must be logged in to create a poll")
             /\ UNCHANGED dbVars]_vars

\* the call of a session that is not signed in has failed, and the datastore
\* is as empty as before it
C22_RefusedStoresNothing ==
    /\ editor = Failed("You must be logged in to create a poll")
    /\ polls = <<>>
    /\ poll_options = <<>>
    /\ nextPollId = 1
    /\ nextOptionId = 1

\* C23: a createPoll call of a signed-in user fails with 'Poll title is
\* required' when the title is empty or only whitespace; with a title, it
\* fails with 'At least 2 options are required' when the options parse to
\* something that is no array or to an array of fewer than 2 entries, and it
\* fails when the options do not parse or an entry's text is blank; none of
\* these calls stores a poll or an option.
C23_InvalidCreateFails ==
    [][\A title \in CreateTitles, options \in CreateOptions, dbOk \in BOOLEAN :
          CreatePoll("u1", title, <<" ">>, options, dbOk)
          => LET blankTitle == Trim(title) = <<>>
                 tooFew     == \/ options.json = "object"
                               \/ options.json = "array" /\ Len(options.items) < 2
                 blankText  == \E i \in 1 .. Len(options.items) :
                                   Trim(options.items[i]) = <<>>
                 unparsable == options.json = "invalid"
             IN  /\ blankTitle => editor' = Failed("Poll title is required")
                 /\ ~blankTitle /\ tooFew
                    => editor' = Failed("At least 2 options are required")
                 /\ blankTitle \/ tooFew \/ blankText \/ unparsable
                    => /\ editor'.pc = "idle"
                       /\ editor'.result \notin {"none", "pending", "redirect", "success"}
                       /\ UNCHANGED dbVars]_vars

\* a call with a title and a single option has failed and stored nothing
C23_TooFewOptionsRefused ==
    /\ editor = Failed("At least 2 options are required")
    /\ polls = <<>>
    /\ poll_options = <<>>
    /\ nextPollId = 1
    /\ nextOptionId = 1

\* t is s without the blanks at its two ends
IsTrimOf(t, s) ==
    /\ t # <<>> => Head(t) # " " /\ t[Len(t)] # " "
    /\ \E i, j \in 0 .. Len(s) :
           s = [k \in 1 .. i |-> " "] \o t \o [k \in 1 .. j |-> " "]

\* C24: a createPoll call that succeeds first stores exactly one poll, with
\* the title trimmed, the description trimmed or null when it is blank, and
\* created_by the signed-in user, and then stores exactly one option per
\* submitted option, in the submitted order, each of the new poll, with its
\* text trimmed and votes = 0; no other row changes.
C24_CreateStoresTrimmedPoll ==
    [][/\ \A user \in Callers, title \in TypedTitles,
             description \in TypedDescriptions, options \in TypedOptions :
              CreatePoll(user, title, description, options, TRUE)
              /\ editor'.pc = "createOptions"
              => LET id == editor'.pollId
                 IN  /\ id \notin DOMAIN polls
                     /\ DOMAIN polls' = DOMAIN polls \cup {id}
                     /\ \A q \in DOMAIN polls : polls'[q] = polls[q]
                     /\ IsTrimOf(polls'[id].title, title)
                     /\ IF \A k \in 1 .. Len(description) : description[k] = " "
                        THEN polls'[id].description = Null
                        ELSE IsTrimOf(polls'[id].description, description)
                     /\ user # NoUser
                     /\ polls'[id].created_by = user
                     /\ poll_options' = poll_options
       /\ editor.pc = "createOptions" /\ editor'.result = "redirect"
          => LET stored == InOrder(DOMAIN poll_options' \ DOMAIN poll_options)
             IN  /\ Len(stored) = Len(editor.options)
                 /\ \A k \in 1 .. Len(stored) :
                        /\ poll_options'[stored[k]].poll_id = editor.pollId
                        /\ IsTrimOf(poll_options'[stored[k]].text, editor.options[k])
                        /\ poll_options'[stored[k]].votes = 0
                 /\ \A o \in DOMAIN poll_options : poll_options'[o] = poll_options[o]
                 /\ EmbedOptions(poll_options', editor.pollId)
                    = [k \in 1 .. Len(stored) |->
                          [id |-> stored[k], text |-> poll_options'[stored[k]].text,
                           votes |-> 0]]
                 /\ polls' = polls]_vars

\* a poll typed with blanks around its title, description and option texts is
\* stored with three options beside an earlier poll
C24_SecondPollStored ==
    /\ editor.result = "redirect"
    /\ editor.pollId = 2
    /\ DOMAIN polls = {1, 2}
    /\ polls[2] = [title |-> <<"q">>, description |-> <<"d">>, created_by |-> "u2"]
    /\ polls[1].description = Null
    /\ LET options == EmbedOptions(poll_options, 2)
       IN  [k \in 1 .. Len(options) |-> options[k].text]
           = << <<"b">>, <<"a">>, <<"b">> >>

UpdateSteps == {"fetchOptions", "updateOption", "removeOption"}

\* C26: while nothing else runs, no step of updatePoll changes the votes or the
\* poll of a stored option or any option of another poll, every option it
\* adds is one of its poll, and when the call returns success the poll's
\* options are exactly the options it had whose id the update data names,
\* each with the text the update data gives it, followed by one new option
\* with votes = 0 per 'new_' entry, in the order of the entries; the poll's
\* other options are gone, and an entry with an unknown id leaves no trace.
C26_OptionsReconciled ==
    [][editor.pc \in UpdateSteps
       => /\ \A o \in DOMAIN poll_options \cap DOMAIN poll_options' :
                /\ poll_options'[o].votes = poll_options[o].votes
                /\ poll_options'[o].poll_id = poll_options[o].poll_id
          /\ \A o \in DOMAIN poll_options' \ DOMAIN poll_options :
                /\ poll_options'[o].votes = 0
                /\ poll_options'[o].poll_id = editor.pollId
          /\ \A o \in DOMAIN poll_options :
                poll_options[o].poll_id # editor.pollId
                => o \in DOMAIN poll_options' /\ poll_options'[o] = poll_options[o]
          /\ editor'.result = "success"
             => LET request == editor.options
                    before  == IF editor.pc = "fetchOptions"
                               THEN EmbedOptions(poll_options, editor.pollId)
                               ELSE editor.existing
                    named   == {request[k].id : k \in 1 .. Len(request)}
                    kept    == SelectSeq(before, LAMBDA opt : opt.id \in named)
                    new     == SelectSeq(request, LAMBDA entry : IsNew(entry.id))
                    after   == EmbedOptions(poll_options', editor.pollId)
                    TextFor(id) == (CHOOSE k \in 1 .. Len(request) :
                                       request[k].id = id)
                IN  /\ Len(after) = Len(kept) + Len(new)
                    /\ \A j \in 1 .. Len(kept) :
                           /\ after[j].id = kept[j].id
                           /\ after[j].text = request[TextFor(kept[j].id)].text
                    /\ \A k \in 1 .. Len(new) :
                           /\ after[Len(kept) + k].text = new[k].text
                           /\ after[Len(kept) + k].votes = 0
                           /\ \A j \in 1 .. Len(before) :
                                  before[j].id # after[Len(kept) + k].id]_vars

\* an update that dropped the first option, retexted the second, which has a
\* vote, added a third, and named an unknown option, has returned success
C26_DroppedRetextedAdded ==
    /\ editor.result = "success"
    /\ editor.pc = "idle"
    /\ DOMAIN poll_options = {2, 3}
    /\ poll_options[2].text = <<"z">>
    /\ poll_options[2].votes = 1
    /\ poll_options[3] = [poll_id |-> 1, text |-> <<"n">>, votes |-> 0]

\* C27: once an updatePoll call that keeps every option has returned, every
\* submitVote call that returned success while it ran is counted in the votes
\* of its option.
C27_VotesSurviveUpdate ==
    editor.result = "success"
    => \A o \in DOMAIN poll_options : poll_options[o].votes >= accepted[o]

\* C28: whenever no createPoll or updatePoll call is in progress, every stored
\* poll has at least 2 options, each with a text that is not empty.
C28_AtLeastTwoOptions ==
    editor.pc = "idle"
    => \A q \in DOMAIN polls :
          LET options == EmbedOptions(poll_options, q)
          IN  /\ Len(options) >= 2
              /\ \A k \in 1 .. Len(options) : options[k].text # <<>>

\* C29: the form starts a submitVote call only when none of its calls is in
\* flight and none has succeeded; a call of the form that succeeds sets
\* hasVoted, which is never reset, and after it the form starts no call: at
\* most one call of one form succeeds.
C29_FormVotesAtMostOnce ==
    /\ [](form.mounted => (form.isSubmitting <=> voter[FormSession].pc = "write"))
    /\ [][/\ voter[FormSession].pc = "idle" /\ voter'[FormSession] # voter[FormSession]
             => /\ ~form.isSubmitting
                /\ ~form.hasVoted
                /\ form.selectedOption # Empty
          /\ voter[FormSession].pc = "write" /\ voter'[FormSession].result = "ok"
             => ~form.hasVoted /\ form'.hasVoted
          /\ form.hasVoted
             => form'.hasVoted /\ voter'[FormSession] = voter[FormSession]]_vars

\* the form has voted, its button is disabled, and one more submitVote call
\* could still be counted
C29_VotedAndDisabled ==
    /\ form.hasVoted
    /\ SubmitDisabled(form)
    /\ voter[FormSession].result = "ok"
    /\ SumOver(accepted, OptionIds) = 1
    /\ CallsCounted < FormCalls

\* a JavaScript value that is a number, neither undefined nor NaN
IsNumber(x) == x >= 0

\* the local total is the sum of the local votes
Tallied(f) ==
    /\ IsNumber(f.localTotalVotes)
    /\ f.localTotalVotes = SumSeq([i \in 1 .. Len(f.localOptions) |->
                                      f.localOptions[i].votes])

\* C30: a form whose local total is the sum of its local votes keeps it so in
\* every step; a vote of the form that succeeds raises the local votes of the
\* selected option by 1 and the local total by 1 and leaves the local votes
\* of the other options as they are.
C30_LocalTallyKept ==
    [][form.mounted
       => /\ Tallied(form) => Tallied(form')
          /\ ~form.hasVoted /\ form'.hasVoted
             => /\ IsNumber(form.localTotalVotes)
                /\ IsNumber(form'.localTotalVotes)
                /\ form'.localTotalVotes = form.localTotalVotes + 1
                /\ Len(form'.localOptions) = Len(form.localOptions)
                /\ \A i \in 1 .. Len(form.localOptions) :
                       form'.localOptions[i].votes =
                           form.localOptions[i].votes
                           + (IF form.localOptions[i].id = form.selectedOption
                              THEN 1 ELSE 0)]_vars
=============================================================================
